---------------------------- MODULE Spec2Model ----------------------------
(***************************************************************************)
(* gitflat (src/main.go): clone a repository into a destination folder and *)
(* flatten the files of its HEAD tree, either into the destination folder  *)
(* itself (one file per basename) or into one text file.                   *)
(*                                                                         *)
(* Strings are TLA+ strings; paths are relative to opts.DestFolder.        *)
(* Spec     runs flatten / flattenToSingleFile on an arbitrary options     *)
(*          value (the functions' own contract).                           *)
(* SpecMain runs main: the options are built from the command-line flags.  *)
(***************************************************************************)
EXTENDS Integers, Sequences, FiniteSets, TLC

VARIABLES
    args,     \* the command-line flags (main.go:26-31); NoArgs when main is not run
    pc,       \* position in the program
    opts,     \* the options struct (main.go:16-23)
    tree,     \* the files of the HEAD tree, in the order tree.Files() yields them
    idx,      \* number of files ForEach has handed to the callback so far
    fs,       \* the files under opts.DestFolder: relative path -> content
    out,      \* the bytes written to outputWriter so far
    events,   \* the operations on outputFile so far: "create", "write", "close"
    reads,    \* the names of the files whose Contents() was called, in order
    emits,    \* the names of the files written to the target, in order
    err       \* the error flatten / flattenToSingleFile returned ("" is nil)

vars == <<args, pc, opts, tree, idx, fs, out, events, reads, emits, err>>

---------------------------------------------------------------------------
(* Bounds of the model *)

MaxFiles == 3
MaxList == 2

---------------------------------------------------------------------------
(* Library functions the program calls *)

HasPrefix(s, prefix) ==
    /\ Len(prefix) <= Len(s)
    /\ SubSeq(s, 1, Len(prefix)) = prefix

HasSuffix(s, suffix) ==
    /\ Len(suffix) <= Len(s)
    /\ SubSeq(s, Len(s) - Len(suffix) + 1, Len(s)) = suffix

RECURSIVE StripTrailingSlashes(_)
StripTrailingSlashes(s) ==
    IF Len(s) > 0 /\ SubSeq(s, Len(s), Len(s)) = "/"
    THEN StripTrailingSlashes(SubSeq(s, 1, Len(s) - 1))
    ELSE s

RECURSIVE AfterLastSlash(_, _)
AfterLastSlash(s, i) ==
    IF i = 0 THEN s
    ELSE IF SubSeq(s, i, i) = "/" THEN SubSeq(s, i + 1, Len(s))
    ELSE AfterLastSlash(s, i - 1)

\* filepath.Base: the last element of the path
Base(path) ==
    IF path = "" THEN "."
    ELSE LET p == StripTrailingSlashes(path)
         IN  IF p = "" THEN "/" ELSE AfterLastSlash(p, Len(p))

Whitespace == {" ", "\t", "\n", "\r", "\f"}

RECURSIVE FieldsFrom(_, _, _, _)
FieldsFrom(s, i, cur, acc) ==
    IF i > Len(s) THEN (IF cur = "" THEN acc ELSE Append(acc, cur))
    ELSE IF SubSeq(s, i, i) \in Whitespace
         THEN FieldsFrom(s, i + 1, "", IF cur = "" THEN acc ELSE Append(acc, cur))
         ELSE FieldsFrom(s, i + 1, cur \o SubSeq(s, i, i), acc)

\* strings.Fields: split around each run of white space; no empty items
Fields(s) == FieldsFrom(s, 1, "", <<>>)

\* fmt.Errorf("<msg>: %w", cause)
Errorf(msg, cause) == msg \o ": " \o cause

\* a write that leaves an existing file as it is
WriteFile_KeepExisting(fsys, name, content) ==
    [p \in DOMAIN fsys \cup {name} |-> IF p \in DOMAIN fsys THEN fsys[p] ELSE content]

\* os.WriteFile(filepath.Join(dest, name), content, 0644): create or truncate
WriteFile(fsys, name, content) ==
    [p \in DOMAIN fsys \cup {name} |-> IF p = name THEN content ELSE fsys[p]]

HasSlash(p) == \E i \in 1..Len(p) : SubSeq(p, i, i) = "/"

\* the directory under the destination folder that holds p ("" when none does)
TopDir(p) ==
    IF ~HasSlash(p) THEN ""
    ELSE LET first == CHOOSE i \in 1..Len(p) :
                         /\ SubSeq(p, i, i) = "/"
                         /\ \A j \in 1..(i - 1) : SubSeq(p, j, j) # "/"
         IN  SubSeq(p, 1, first - 1)

\* the directories directly under the destination folder
SubDirs(fsys) == {TopDir(p) : p \in DOMAIN fsys} \ {""}

---------------------------------------------------------------------------
(* The predicates *)

\* shouldExclude with the exclude list consulted under an include prefix too,
\* and with a prefix matched by whole path segments
shouldExclude_ExcludesToo(path, excludeDirs, include) ==
    \/ include # "" /\ ~HasPrefix(path, include)
    \/ \E i \in 1..Len(excludeDirs) :
          excludeDirs[i] # "" /\ HasPrefix(path, excludeDirs[i])

shouldExclude_BySegment(path, excludeDirs, include) ==
    IF include # ""
    THEN ~HasPrefix(path, include)
    ELSE \E i \in 1..Len(excludeDirs) :
            /\ excludeDirs[i] # ""
            /\ \/ path = excludeDirs[i]
               \/ HasPrefix(path, excludeDirs[i] \o "/")
               \/ HasSuffix(excludeDirs[i], "/") /\ HasPrefix(path, excludeDirs[i])

shouldExclude(path, excludeDirs, include) ==
    IF include # ""
    THEN ~HasPrefix(path, include)
    ELSE \E i \in 1..Len(excludeDirs) :
            excludeDirs[i] # "" /\ HasPrefix(path, excludeDirs[i])

hasValidExtension(path, extensions) ==
    IF Len(extensions) = 0 \/ (Len(extensions) = 1 /\ extensions[1] = "")
    THEN TRUE
    ELSE \E i \in 1..Len(extensions) :
            extensions[i] # "" /\ HasSuffix(path, extensions[i])

---------------------------------------------------------------------------
(* Inputs *)

\* The files a repository may hold, in the order of a tree walk (entries of
\* a tree sorted by name, a directory compared as name + "/").
AllFiles == <<
    [Name |-> "README.md",  Contents |-> "R"],
    [Name |-> "a.go",       Contents |-> "X"],
    [Name |-> "a/x.txt",    Contents |-> "A"],
    [Name |-> "b.go",       Contents |-> "Y"],
    [Name |-> "b/x.txt",    Contents |-> "B"],
    [Name |-> "src/file",   Contents |-> "S"],
    [Name |-> "srcx/file",  Contents |-> "T"] >>

Pick(S) ==
    LET F[i \in 0..Len(AllFiles)] ==
            IF i = 0 THEN <<>>
            ELSE IF i \in S THEN Append(F[i - 1], AllFiles[i]) ELSE F[i - 1]
    IN  F[Len(AllFiles)]

Trees == {Pick(S) : S \in {T \in SUBSET (1..Len(AllFiles)) : Cardinality(T) <= MaxFiles}}

ListsOf(S) == UNION {[1..n -> S] : n \in 0..MaxList}

NoArgs == [repo |-> "", dest |-> "", exclude |-> "", include |-> "", exts |-> "", single |-> FALSE]

Options ==
    [RepoURL : {"url"}, DestFolder : {"out"},
     ExcludeDirs : ListsOf({"", "src"}),
     Include : {"", "src"},
     Extensions : ListsOf({"", ".go"}),
     SingleFile : BOOLEAN]

NoOptions ==
    [RepoURL |-> "", DestFolder |-> "", ExcludeDirs |-> <<>>, Include |-> "",
     Extensions |-> <<>>, SingleFile |-> FALSE]

Flags ==
    [repo : {"", "url"}, dest : {"out"},
     exclude : {"", "a/,b/", "a/ b/"},
     include : {"", "src"},
     exts : {"", ".go,.txt", ".go .txt"},
     single : BOOLEAN]

EmptyDir == [p \in {} |-> ""]

Start(p, a, o) ==
    /\ pc = p
    /\ args = a
    /\ opts = o
    /\ tree \in Trees
    /\ idx = 0
    /\ fs = EmptyDir
    /\ out = ""
    /\ events = <<>>
    /\ reads = <<>>
    /\ emits = <<>>
    /\ err = ""

Init == \E o \in Options : Start("clone", NoArgs, o)

InitMain == \E a \in Flags : Start("main", a, NoOptions)

---------------------------------------------------------------------------
(* The program *)

\* main: flag parsing, the usage check and the options
Main ==
    /\ pc = "main"
    /\ \/ /\ args.repo = "" \/ args.dest = ""
          /\ err' = "usage"
          /\ pc' = "exit"
          /\ opts' = opts
       \/ /\ args.repo # "" /\ args.dest # ""
          /\ opts' = [RepoURL     |-> args.repo,
                      DestFolder  |-> args.dest,
                      ExcludeDirs |-> Fields(args.exclude),
                      Include     |-> args.include,
                      Extensions  |-> Fields(args.exts),
                      SingleFile  |-> args.single]
          /\ pc' = "clone"
          /\ err' = err
    /\ UNCHANGED <<args, tree, idx, fs, out, events, reads, emits>>

\* the file closed on the way past processFiles only
DeferredClose_AfterProcessFiles(ev) ==
    IF (\E i \in 1..Len(ev) : ev[i] = "create") /\ pc = "cleanupDirectories"
    THEN Append(ev, "close") ELSE ev

\* `defer outputFile.Close()`: runs when flattenToSingleFile returns
DeferredClose(ev) ==
    IF \E i \in 1..Len(ev) : ev[i] = "create" THEN Append(ev, "close") ELSE ev

\* a return of flatten / flattenToSingleFile, with the events of the last step
Return(e, ev) ==
    /\ err' = e
    /\ pc' = "exit"
    /\ events' = DeferredClose(ev)

\* the work tree git.PlainClone(dest, false, ...) checks out, and its .git
Checkout(t) ==
    [p \in {t[i].Name : i \in 1..Len(t)} \cup {".git/HEAD"} |->
        IF p = ".git/HEAD" THEN "ref: refs/heads/main"
        ELSE LET i == CHOOSE j \in 1..Len(t) : t[j].Name = p IN t[i].Contents]

\* git.PlainClone, repo.Head, repo.CommitObject, commit.Tree
Clone ==
    /\ pc = "clone"
    /\ \/ /\ fs' = fs
          /\ Return(Errorf("error cloning repository", "repository not found"), events)
       \/ /\ fs' = Checkout(tree)
          /\ \E msg \in {"error getting HEAD", "error getting commit", "error getting tree"} :
                Return(Errorf(msg, "object not found"), events)
       \/ /\ fs' = Checkout(tree)
          /\ pc' = IF opts.SingleFile THEN "create" ELSE "processFiles"
          /\ UNCHANGED <<err, events>>
    /\ UNCHANGED <<args, opts, tree, idx, out, reads, emits>>

\* os.Create(filepath.Join(opts.DestFolder, "flattened_repo.txt"))
Create ==
    /\ pc = "create"
    /\ \/ /\ err' = Errorf("error creating output file", "permission denied")
          /\ pc' = "exit"
          /\ UNCHANGED <<fs, events>>
       \/ /\ fs' = WriteFile(fs, "flattened_repo.txt", "")
          /\ events' = Append(events, "create")
          /\ pc' = "processFiles"
          /\ err' = err
    /\ UNCHANGED <<args, opts, tree, idx, out, reads, emits>>

\* the block with one line break after the content
Fprintf_OneNewline(name, content) == "--- " \o name \o " ---\n" \o content \o "\n"

\* fmt.Fprintf(outputWriter, "--- %s ---\n%s\n\n", f.Name, content)
Fprintf(name, content) == "--- " \o name \o " ---\n" \o content \o "\n\n"

\* an error of processFiles dropped
ProcessError_Swallowed(e) == ""

\* the error flatten / flattenToSingleFile makes of an error of processFiles
ProcessError(e) == Errorf("error processing files", e)

\* the callback without its extension check
Skipped_PathOnly(f) == shouldExclude(f.Name, opts.ExcludeDirs, opts.Include)

\* the two early returns of the callback: the file is not selected
Skipped(f) ==
    \/ shouldExclude(f.Name, opts.ExcludeDirs, opts.Include)
    \/ ~hasValidExtension(f.Name, opts.Extensions)

\* one call of the callback processFiles hands to ForEach
Visit ==
    /\ pc = "processFiles"
    /\ idx < Len(tree)
    /\ idx' = idx + 1
    /\ LET f == tree[idx + 1] IN
       \/ /\ Skipped(f)
          /\ UNCHANGED <<pc, fs, out, events, reads, emits, err>>
       \/ /\ ~Skipped(f)
          /\ reads' = Append(reads, f.Name)
          /\ \/ /\ Return(ProcessError(Errorf("error reading file contents", "object not found")),
                          events)
                /\ UNCHANGED <<fs, out, emits>>
             \/ /\ opts.SingleFile
                /\ out' = out \o Fprintf(f.Name, f.Contents)
                /\ fs' = WriteFile(fs, "flattened_repo.txt", out')
                /\ events' = Append(events, "write")
                /\ emits' = Append(emits, f.Name)
                /\ UNCHANGED <<pc, err>>
             \/ /\ opts.SingleFile
                /\ Return(ProcessError(Errorf("error writing file", "no space left on device")),
                          Append(events, "write"))
                /\ UNCHANGED <<fs, out, emits>>
             \/ /\ ~opts.SingleFile
                /\ Base(f.Name) \notin SubDirs(fs)
                /\ fs' = WriteFile(fs, Base(f.Name), f.Contents)
                /\ emits' = Append(emits, f.Name)
                /\ UNCHANGED <<pc, out, events, err>>
             \/ /\ ~opts.SingleFile
                /\ Return(ProcessError(Errorf("error writing file", "permission denied")), events)
                /\ UNCHANGED <<fs, out, emits>>
    /\ UNCHANGED <<args, opts, tree>>

\* ForEach has no file left: processFiles returns nil
ProcessDone ==
    /\ pc = "processFiles"
    /\ idx = Len(tree)
    /\ pc' = "cleanupDirectories"
    /\ UNCHANGED <<args, opts, tree, idx, fs, out, events, reads, emits, err>>

\* cleanupDirectories: os.RemoveAll of every directory under the destination
RemoveDirs(fsys) ==
    [p \in {q \in DOMAIN fsys : TopDir(q) = ""} |-> fsys[p]]

Cleanup ==
    /\ pc = "cleanupDirectories"
    /\ \/ /\ fs' = RemoveDirs(fs)
          /\ Return("", events)
       \/ /\ fs' = fs
          /\ Return(Errorf(IF opts.SingleFile THEN "error cleaning up directory"
                                              ELSE "error removing directories",
                           Errorf("error removing directory", "permission denied")),
                    events)
    /\ UNCHANGED <<args, opts, tree, idx, out, reads, emits>>

Next == Clone \/ Create \/ Visit \/ ProcessDone \/ Cleanup

NextMain == Main \/ Clone \/ Create \/ Visit \/ ProcessDone \/ Cleanup

Spec == Init /\ [][Next]_vars

SpecMain == InitMain /\ [][NextMain]_vars

---------------------------------------------------------------------------
(* What the claims speak of *)

Names(log) == {log[k] : k \in 1..Len(log)}

\* the file was selected: the callback went on to call its Contents()
WasRead(name) == name \in Names(reads)

\* d is a prefix of p, character by character
IsLiteralPrefix(d, p) ==
    /\ Len(d) <= Len(p)
    /\ \A k \in 1..Len(d) : SubSeq(d, k, k) = SubSeq(p, k, k)

\* an entry is selected: not excluded by path, and with an accepted extension
IsSelected(f) ==
    /\ ~shouldExclude(f.Name, opts.ExcludeDirs, opts.Include)
    /\ hasValidExtension(f.Name, opts.Extensions)

\* the names of the selected entries among the first n of the tree, in order
SelectedNames(n) ==
    LET F[i \in 0..n] ==
            IF i = 0 THEN <<>>
            ELSE IF IsSelected(tree[i]) THEN Append(F[i - 1], tree[i].Name) ELSE F[i - 1]
    IN  F[n]

Succeeded == pc = "exit" /\ err = ""

ProcessingFailed == HasPrefix(err, "error processing files: ")

---------------------------------------------------------------------------
(* C1 *)

ExcludeLists == ListsOf({"", "a", "src"})

\* C1: with a non-empty include prefix I, every file handed to the callback is
\* selected iff its path starts with I and its extension is accepted, and
\* whether it is excluded by path does not depend on the exclude list.
C1_IncludeAlone ==
    opts.Include # "" =>
        \A i \in 1..idx :
            LET P == tree[i].Name IN
            /\ WasRead(P) <=> /\ IsLiteralPrefix(opts.Include, P)
                              /\ hasValidExtension(P, opts.Extensions)
            /\ \A E \in ExcludeLists :
                  shouldExclude(P, E, opts.Include) = ~IsLiteralPrefix(opts.Include, P)

\* a file under the include prefix is selected although an exclude prefix matches
\* it, and another file of the same run is rejected
C1_Witness ==
    /\ Succeeded
    /\ opts.Include # ""
    /\ \E i \in 1..idx :
          /\ WasRead(tree[i].Name)
          /\ \E k \in 1..Len(opts.ExcludeDirs) :
                opts.ExcludeDirs[k] # "" /\ IsLiteralPrefix(opts.ExcludeDirs[k], tree[i].Name)
    /\ \E j \in 1..idx : ~WasRead(tree[j].Name)

---------------------------------------------------------------------------
(* C2 *)

\* C2: with an empty include prefix, every file handed to the callback is
\* selected iff no non-empty exclude entry is a character-wise prefix of its
\* path and its extension is accepted; the entry "src" rejects src/file and
\* srcx/file alike.
C2_ExcludePrefixes ==
    opts.Include = "" =>
        \A i \in 1..idx :
            LET P == tree[i].Name
                E == opts.ExcludeDirs
            IN
            /\ WasRead(P) <=>
                  /\ ~\E k \in 1..Len(E) : E[k] # "" /\ IsLiteralPrefix(E[k], P)
                  /\ hasValidExtension(P, opts.Extensions)
            /\ ("src" \in Names(E) /\ P \in {"src/file", "srcx/file"}) => ~WasRead(P)

\* the entry "src" has rejected srcx/file, and an empty entry of the same list
\* has not kept another file from being selected
C2_Witness ==
    /\ Succeeded
    /\ opts.Include = ""
    /\ "" \in Names(opts.ExcludeDirs)
    /\ "src" \in Names(opts.ExcludeDirs)
    /\ \E i \in 1..idx : tree[i].Name = "srcx/file" /\ ~WasRead("srcx/file")
    /\ \E j \in 1..idx : WasRead(tree[j].Name)

---------------------------------------------------------------------------
(* C3 *)

---------------------------------------------------------------------------
(* C4 *)

RECURSIVE SplitFrom(_, _, _, _)
SplitFrom(s, i, cur, acc) ==
    IF i > Len(s) THEN Append(acc, cur)
    ELSE IF SubSeq(s, i, i) = ","
         THEN SplitFrom(s, i + 1, "", Append(acc, cur))
         ELSE SplitFrom(s, i + 1, cur \o SubSeq(s, i, i), acc)

\* the items of a comma-separated list
CommaItems(s) == Names(SplitFrom(s, 1, "", <<>>)) \ {""}

\* C4: each item of the comma-separated -exclude value is an exclude prefix of
\* the run and each item of the comma-separated -exts value is an accepted
\* extension: without -include, a file that starts with an item of -exclude is
\* rejected, and a file that starts with none and ends with an item of -exts
\* is selected.
C4_CommaSeparatedFlags ==
    (pc # "main" /\ err # "usage" /\ args.include = "") =>
        \A i \in 1..idx :
            LET P == tree[i].Name
                excluded == \E x \in CommaItems(args.exclude) : IsLiteralPrefix(x, P)
                accepted == \E x \in CommaItems(args.exts) : HasSuffix(P, x)
            IN
            /\ excluded => ~WasRead(P)
            /\ (~excluded /\ accepted) => WasRead(P)

---------------------------------------------------------------------------
(* C5 *)

\* C5: after a successful run every file of the tree has been handed to the
\* callback once, the files read and the files emitted are exactly the
\* selected files, each once, in the order of the traversal.
C5_SelectedEmittedOnce ==
    Succeeded =>
        /\ idx = Len(tree)
        /\ emits = SelectedNames(Len(tree))
        /\ reads = SelectedNames(Len(tree))
        /\ \A i \in 1..Len(tree) :
              Cardinality({k \in 1..Len(emits) : emits[k] = tree[i].Name})
                 = IF IsSelected(tree[i]) THEN 1 ELSE 0

\* a successful run that emitted two files and passed over one between them
C5_Witness ==
    /\ Succeeded
    /\ Len(emits) >= 2
    /\ \E i, j, k \in 1..Len(tree) :
          /\ i < j /\ j < k
          /\ IsSelected(tree[i]) /\ ~IsSelected(tree[j]) /\ IsSelected(tree[k])
          /\ ~hasValidExtension(tree[j].Name, opts.Extensions)

---------------------------------------------------------------------------
(* C6 *)

SelectedBasenames == {Base(tree[i].Name) : i \in {j \in 1..Len(tree) : IsSelected(tree[j])}}

\* C6: after a successful directory-mode run the destination holds no
\* directory, and a file N is in it iff N is the basename of a selected entry.
C6_FlatDirectoryOfSelected ==
    (Succeeded /\ ~opts.SingleFile) =>
        /\ SubDirs(fs) = {}
        /\ DOMAIN fs = SelectedBasenames

---------------------------------------------------------------------------
(* C7 *)

\* the blocks of the selected entries among the first n of the tree
Artifact(n) ==
    LET F[i \in 0..n] ==
            IF i = 0 THEN ""
            ELSE IF IsSelected(tree[i])
                 THEN F[i - 1] \o "--- " \o tree[i].Name \o " ---\n"
                               \o tree[i].Contents \o "\n\n"
                 ELSE F[i - 1]
    IN  F[n]

\* C7: after a successful single-file run the bytes written to the stream are
\* the blocks "--- <path> ---\n<content>\n\n" of exactly the selected entries,
\* in the order of the traversal.
C7_ArtifactIsBlocksInOrder ==
    (Succeeded /\ opts.SingleFile) =>
        /\ out = Artifact(Len(tree))
        /\ fs["flattened_repo.txt"] = out

\* a.go (content X) then b.go (content Y) selected, a third file passed over
C7_Witness ==
    /\ Succeeded
    /\ opts.SingleFile
    /\ emits = <<"a.go", "b.go">>
    /\ Len(tree) > Len(emits)
    /\ out = "--- a.go ---\nX\n\n--- b.go ---\nY\n\n"

---------------------------------------------------------------------------
(* C8 *)

\* the last selected entry of the tree with the basename of entry i
LastWithBase(i) ==
    CHOOSE j \in 1..Len(tree) :
        /\ IsSelected(tree[j]) /\ Base(tree[j].Name) = Base(tree[i].Name)
        /\ \A k \in (j + 1)..Len(tree) :
              ~(IsSelected(tree[k]) /\ Base(tree[k].Name) = Base(tree[i].Name))

\* C8: after a successful directory-mode run, for every selected entry exactly
\* one file of the destination has its basename, and it holds the content of
\* the last selected entry with that basename.
C8_LastWriterWins ==
    (Succeeded /\ ~opts.SingleFile) =>
        \A i \in 1..Len(tree) :
            IsSelected(tree[i]) =>
                /\ Cardinality({p \in DOMAIN fs : Base(p) = Base(tree[i].Name)}) = 1
                /\ Base(tree[i].Name) \in DOMAIN fs
                /\ fs[Base(tree[i].Name)] = tree[LastWithBase(i)].Contents

\* a/x.txt and b/x.txt were both emitted and the run succeeded: x.txt is b's
C8_Witness ==
    /\ Succeeded
    /\ ~opts.SingleFile
    /\ {"a/x.txt", "b/x.txt"} \subseteq Names(emits)
    /\ fs["x.txt"] = "B"

---------------------------------------------------------------------------
(* C9 *)

Causes == {"object not found", "no space left on device", "permission denied"}

---------------------------------------------------------------------------
(* C10 *)

Count(ev, what) == Cardinality({i \in 1..Len(ev) : ev[i] = what})

\* C10: the output file is created at most once, before any file is handed to
\* the callback and only in single-file mode; once created it is closed exactly
\* once when the run ends, whatever the outcome, and the close is the last
\* operation on it.
C10_StreamReleasedOnce ==
    /\ Count(events, "create") <= 1
    /\ events # <<>> => (opts.SingleFile /\ events[1] = "create")
    /\ (opts.SingleFile /\ idx > 0) => Count(events, "create") = 1
    /\ \A i \in 1..Len(events) : events[i] = "close" => i = Len(events)
    /\ (pc = "exit" /\ events # <<>>) => events[Len(events)] = "close"
    /\ pc # "exit" => Count(events, "close") = 0

\* the run wrote to the stream, failed in the cleanup and closed the stream
C10_Witness ==
    /\ pc = "exit"
    /\ HasPrefix(err, "error cleaning up directory")
    /\ Count(events, "write") >= 1
    /\ events[Len(events)] = "close"

=============================================================================
